---- MODULE Spec2Model ----
(***************************************************************************)
(* A model of aioclamd (src/aioclamd/__init__.py): one public operation of *)
(* ClamdAsyncClient run against a clamd daemon, from the opening of its    *)
(* connection to the value or exception its caller sees.                   *)
(*                                                                         *)
(* A Python str is a sequence of one-character strings, a bytes object a   *)
(* sequence of integers 0..255.  The payload of the caller's data source   *)
(* is opaque to the client: only its length is modelled.                   *)
(***************************************************************************)
EXTENDS Integers, Sequences, FiniteSets, TLC

(***************************************************************************)
(* Bounds of the model.                                                    *)
(***************************************************************************)
\* a daemon response is a concatenation of at most MaxPieces pieces
MaxPieces == 3
\* the data source of instream holds at most MaxChunks * chunk_size bytes
MaxChunks == 2

(***************************************************************************)
(* Python values.                                                          *)
(***************************************************************************)
\* Python's None, where a str may stand as well: no str is this sequence,
\* whose one element is not a single character
None == <<"None">>

\* the characters of the model: the ASCII letters and the punctuation that
\* the commands, the paths and the responses use
Upper ==
    << "A", "B", "C", "D", "E", "F", "G", "H", "I", "J", "K", "L", "M",
       "N", "O", "P", "Q", "R", "S", "T", "U", "V", "W", "X", "Y", "Z" >>

Lower ==
    << "a", "b", "c", "d", "e", "f", "g", "h", "i", "j", "k", "l", "m",
       "n", "o", "p", "q", "r", "s", "t", "u", "v", "w", "x", "y", "z" >>

\* ord(c), the code point of an ASCII character
Ord(c) ==
    CASE c = "\n" -> 10
      [] c = " " -> 32
      [] c = "." -> 46
      [] c = "/" -> 47
      [] c = ":" -> 58
      [] \E i \in 1..26 : Upper[i] = c -> 64 + (CHOOSE i \in 1..26 : Upper[i] = c)
      [] \E i \in 1..26 : Lower[i] = c -> 96 + (CHOOSE i \in 1..26 : Lower[i] = c)

\* chr(b)
Chr(b) ==
    CASE b = 10 -> "\n"
      [] b = 32 -> " "
      [] b = 46 -> "."
      [] b = 47 -> "/"
      [] b = 58 -> ":"
      [] 65 <= b /\ b <= 90 -> Upper[b - 64]
      [] 97 <= b /\ b <= 122 -> Lower[b - 96]

\* the bytes that are ASCII characters of the model
AsciiBytes == {10, 32, 46, 47, 58} \cup (65..90) \cup (97..122)

\* str.encode("utf-8"), for ASCII text: one byte per character
Utf8Encode(s) == [i \in 1..Len(s) |-> Ord(s[i])]

\* whether bytes.decode("utf-8") succeeds; the daemon's bytes of the model
\* are ASCII or the byte 0xFF, which no UTF-8 text holds
Utf8Valid(bs) == \A i \in 1..Len(bs) : bs[i] \in AsciiBytes

Utf8Decode(bs) == [i \in 1..Len(bs) |-> Chr(bs[i])]

\* the characters str.strip() removes (those of the model's alphabet)
Whitespace == {" ", "\n"}

\* str.strip()
Strip(s) ==
    LET keep == {i \in 1..Len(s) : s[i] \notin Whitespace}
    IN  IF keep = {} THEN <<>>
        ELSE LET first == CHOOSE i \in keep : \A j \in keep : i <= j
                 last  == CHOOSE i \in keep : \A j \in keep : j <= i
             IN  SubSeq(s, first, last)

\* whether sep stands in s at index i
OccursAt(s, sep, i) ==
    /\ i >= 1
    /\ i + Len(sep) - 1 <= Len(s)
    /\ SubSeq(s, i, i + Len(sep) - 1) = sep

\* str.rfind(sep), 1-based, 0 when sep does not occur: the rightmost place
\* where sep stands in s
RFind(s, sep) ==
    LET hits == {i \in 1..Len(s) : OccursAt(s, sep, i)}
    IN  IF hits = {} THEN 0
        ELSE CHOOSE i \in hits : \A j \in hits : j <= i

\* s.rsplit(sep, 1): one piece when sep does not occur, else the text
\* before and the text after its last occurrence
RSplit1(s, sep) ==
    LET i == RFind(s, sep)
    IN  IF i = 0 THEN << s >>
        ELSE << SubSeq(s, 1, i - 1), SubSeq(s, i + Len(sep), Len(s)) >>

\* s.split("\n"): the pieces between the newlines, empty ones included
RECURSIVE SplitLines(_)
SplitLines(s) ==
    LET nl == {i \in 1..Len(s) : s[i] = "\n"}
    IN  IF nl = {} THEN << s >>
        ELSE LET i == CHOOSE k \in nl : \A j \in nl : k <= j
             IN  << SubSeq(s, 1, i - 1) >> \o SplitLines(SubSeq(s, i + 1, Len(s)))

\* " ".join(args)
RECURSIVE JoinSpace(_)
JoinSpace(args) ==
    IF Len(args) = 0 THEN <<>>
    ELSE IF Len(args) = 1 THEN args[1]
    ELSE args[1] \o << " " >> \o JoinSpace(Tail(args))

\* struct.pack(b"!L", n): four bytes, most significant first
Pack(n) ==
    << (n \div 16777216) % 256, (n \div 65536) % 256, (n \div 256) % 256, n % 256 >>

(***************************************************************************)
(* The response grammar.                                                   *)
(***************************************************************************)
ERROR == << "E", "R", "R", "O", "R" >>
OK == << "O", "K" >>
FOUND == << "F", "O", "U", "N", "D" >>

\* (mutant) the alternation without ERROR
StatusTokens_no_error == << FOUND, OK >>

\* the alternation (FOUND|OK|ERROR), in the order the pattern tries it
StatusTokens == << FOUND, OK, ERROR >>

\* "." of the pattern: any character but a newline
NoNewline(s) == \A i \in 1..Len(s) : s[i] # "\n"

\* "$" of the pattern: the end of the text, or the newline that ends it
AtEnd(s, i) == i = Len(s) + 1 \/ (i = Len(s) /\ s[i] = "\n")

\* the status token that stands in msg at index i and reaches "$"; None
StatusAt(msg, i) ==
    LET hits == {k \in 1..Len(StatusTokens) :
                    /\ OccursAt(msg, StatusTokens[k], i)
                    /\ AtEnd(msg, i + Len(StatusTokens[k]))}
    IN  IF hits = {} THEN None
        ELSE StatusTokens[CHOOSE k \in hits : \A j \in hits : k <= j]

\* the group "((?P<virus>.+) )?" and the status after it, for the text of
\* msg from index i on: the greedy ".+" takes its longest extent that lets
\* the rest match, and the group is skipped when no extent does
VirusFrom(msg, i) ==
    LET extents == {e \in i..Len(msg) :
                       /\ OccursAt(msg, << " " >>, e + 1)
                       /\ StatusAt(msg, e + 2) # None
                       /\ NoNewline(SubSeq(msg, i, e))}
    IN  IF extents # {}
        THEN LET e == CHOOSE x \in extents : \A y \in extents : y <= x
             IN  [ok |-> TRUE, virus |-> SubSeq(msg, i, e),
                  status |-> StatusAt(msg, e + 2)]
        ELSE IF StatusAt(msg, i) # None
        THEN [ok |-> TRUE, virus |-> None, status |-> StatusAt(msg, i)]
        ELSE [ok |-> FALSE, virus |-> None, status |-> None]

\* the extents up to n of the group "(?P<path>.*)" that let the rest of the
\* pattern match
PathExtents(msg, n) ==
    {k \in 0..n :
        /\ OccursAt(msg, << ":", " " >>, k + 1)
        /\ NoNewline(SubSeq(msg, 1, k))
        /\ VirusFrom(msg, k + 3).ok}

\* the match whose path is the first k characters of msg
MatchAt(msg, k) ==
    LET rest == VirusFrom(msg, k + 3)
    IN  [ok |-> TRUE, path |-> SubSeq(msg, 1, k),
         virus |-> rest.virus, status |-> rest.status]

NoMatch == [ok |-> FALSE, path |-> None, virus |-> None, status |-> None]

\* (mutant) a lazy "(?P<path>.*?)": the path takes its shortest extent
MatchFrom_lazy(msg, n) ==
    LET extents == PathExtents(msg, n)
    IN  IF extents = {} THEN NoMatch
        ELSE MatchAt(msg, CHOOSE k \in extents : \A j \in extents : k <= j)

\* scan_response.match(msg): the greedy "(?P<path>.*)" takes its longest
\* extent, of at most n characters, that lets the rest match
MatchFrom(msg, n) ==
    LET extents == PathExtents(msg, n)
    IN  IF extents = {} THEN NoMatch
        ELSE MatchAt(msg, CHOOSE k \in extents : \A j \in extents : j <= k)

scan_response(msg) == MatchFrom(msg, Len(msg))

\* (mutant) the error carries msg without an "ERROR" that ends it, and the
\* whole of msg when none ends it
parse_response_strip_suffix(msg) ==
    LET m == scan_response(msg)
    IN  IF m.ok
        THEN [ok |-> TRUE, path |-> m.path, virus |-> m.virus,
              status |-> m.status, err |-> <<>>]
        ELSE [ok |-> FALSE, path |-> None, virus |-> None,
              status |-> None,
              err |-> IF OccursAt(msg, ERROR, Len(msg) - Len(ERROR) + 1)
                      THEN SubSeq(msg, 1, Len(msg) - Len(ERROR))
                      ELSE msg]

\* _parse_response(msg): the groups (path, virus, status) of the match, or
\* ResponseError carrying the text before the last "ERROR" of msg
parse_response(msg) ==
    LET m == scan_response(msg)
    IN  IF m.ok
        THEN [ok |-> TRUE, path |-> m.path, virus |-> m.virus,
              status |-> m.status, err |-> <<>>]
        ELSE [ok |-> FALSE, path |-> None, virus |-> None,
              status |-> None, err |-> RSplit1(msg, ERROR)[1]]

(***************************************************************************)
(* The exceptions and the values an operation ends with.                   *)
(***************************************************************************)
\* the class statements: each exception class and its base class
BaseClass ==
    [ ClamdError |-> "Exception",
      ResponseError |-> "ClamdError",
      BufferTooLongError |-> "ResponseError",
      ClamdConnectionError |-> "ClamdError",
      ConnectionResetError |-> "Exception",
      CancelledError |-> "BaseException",
      Exception |-> "BaseException" ]

\* issubclass(type, base)
RECURSIVE IsSubclass(_, _)
IsSubclass(type, base) ==
    \/ type = base
    \/ /\ type \in DOMAIN BaseClass
       /\ IsSubclass(BaseClass[type], base)

EmptyDict == << >>

\* d[k] = v on a dict
DictSet(d, k, v) == [x \in DOMAIN d \cup {k} |-> IF x = k THEN v ELSE d[x]]

\* how an operation stands or ended: nothing yet, a value returned (a str,
\* a dict or None), or an exception raised (its class and its message)
NoOutcome == [kind |-> "none", type |-> "None", str |-> <<>>, dict |-> EmptyDict]
ReturnStr(s) == [kind |-> "return", type |-> "str", str |-> s, dict |-> EmptyDict]
ReturnDict(d) == [kind |-> "return", type |-> "dict", str |-> <<>>, dict |-> d]
ReturnNone == [kind |-> "return", type |-> "None", str |-> <<>>, dict |-> EmptyDict]
Raise(type, msg) == [kind |-> "raise", type |-> type, str |-> msg, dict |-> EmptyDict]

(***************************************************************************)
(* The operations and the inputs of the model.                             *)
(***************************************************************************)
BasicOperations == {"ping", "version", "reload", "shutdown"}
ScanOperations == {"scan", "contscan", "multiscan"}
Operations == BasicOperations \cup ScanOperations \cup {"instream"}

\* the command token each operation sends
CommandOf ==
    [ ping |-> << "P", "I", "N", "G" >>,
      version |-> << "V", "E", "R", "S", "I", "O", "N" >>,
      reload |-> << "R", "E", "L", "O", "A", "D" >>,
      shutdown |-> << "S", "H", "U", "T", "D", "O", "W", "N" >>,
      scan |-> << "S", "C", "A", "N" >>,
      contscan |-> << "C", "O", "N", "T", "S", "C", "A", "N" >>,
      multiscan |-> << "M", "U", "L", "T", "I", "S", "C", "A", "N" >>,
      instream |-> << "I", "N", "S", "T", "R", "E", "A", "M" >> ]

\* the size of the chunks instream reads from its data source
chunk_size == 1024

\* the response instream tells apart
SizeLimitExceeded ==
    << "I", "N", "S", "T", "R", "E", "A", "M", " ", "s", "i", "z", "e", " ",
       "l", "i", "m", "i", "t", " ", "e", "x", "c", "e", "e", "d", "e", "d",
       ".", " ", "E", "R", "R", "O", "R" >>

\* the paths a caller asks to scan
Files == { << "/", "a" >> }

\* the sizes of the data sources: the multiples of chunk_size up to
\* MaxChunks chunks, and one byte more than each but the last
Sizes ==
    {s \in {k * chunk_size + d : k \in 0..MaxChunks, d \in {0, 1}} :
        s <= MaxChunks * chunk_size}

\* the answer to a scan of two files, one line for each
TwoLines ==
    << "/", "a", ":", " ", "O", "K", "\n",
       "/", "b", ":", " ", "F", "O", "U", "N", "D", "\n" >>

\* the pieces the text of a daemon response is made of, as bytes: a path
\* with its separator, a virus name or reason with its space, the status
\* tokens, a newline, two whole lines, and the size limit response
Pieces ==
    { Utf8Encode(<< "/", "a", ":", " " >>),
      Utf8Encode(TwoLines),
      Utf8Encode(<< "x", " " >>),
      Utf8Encode(OK),
      Utf8Encode(FOUND),
      Utf8Encode(ERROR),
      Utf8Encode(<< "\n" >>),
      Utf8Encode(SizeLimitExceeded) }

\* the concatenations of at most n pieces
RECURSIVE Concats(_)
Concats(n) ==
    IF n = 0 THEN { << >> }
    ELSE LET shorter == Concats(n - 1)
         IN  shorter \cup {r \o p : r \in shorter, p \in Pieces}

\* what the daemon may answer once it has the whole request: a text of at
\* most MaxPieces pieces, or a shorter one and a byte that is not UTF-8
Responses ==
    Concats(MaxPieces) \cup {r \o << 255 >> : r \in Concats(MaxPieces - 1)}

\* what the daemon may answer before the client reads: nothing at all, or,
\* once it has a frame of a stream, the size limit response
EarlyResponses(written) ==
    { << >> } \cup
    IF \E i \in 1..Len(written) : written[i].what = "frame"
    THEN { Utf8Encode(SizeLimitExceeded) }
    ELSE { }

(***************************************************************************)
(* The state.                                                              *)
(***************************************************************************)
VARIABLES
    op,         \* the public operation called
    file,       \* its path argument (scan, contscan, multiscan), else None
    size,       \* the length of its data source (instream), else 0
    pos,        \* the read position of the data source
    chunk,      \* the length of the chunk last read from the data source
    pc,         \* where the operation's coroutine stands
    writer,     \* the socket's writer: "None", "open" or "closed"
    closeCalls, \* how often writer.close() was called
    log,        \* the wire events of the connection, in order
    peer,       \* the daemon's side of the connection: "open" or "closed"
    inbuf,      \* the bytes the daemon sent
    outcome,    \* what the operation returned or raised
    faults,     \* the failures and cancellations that happened so far
    timeout,    \* the timeout the client was constructed with
    parked      \* the other operation called on the client, when there is one

vars ==
    << op, file, size, pos, chunk, pc, writer, closeCalls, log, peer, inbuf,
       outcome, faults, timeout, parked >>

\* a wire event: a write of head bytes followed by the payload bytes of the
\* data source from offset at on, a drain that returned, or a read that was
\* started
Write(what, head, at, payload) ==
    [ev |-> "write", what |-> what, head |-> head, at |-> at, payload |-> payload]
Drain == [ev |-> "drain", what |-> "", head |-> << >>, at |-> 0, payload |-> 0]
Read == [ev |-> "read", what |-> "", head |-> << >>, at |-> 0, payload |-> 0]

\* the state of an operation and its connection, as a record
Operation(o, f, sz, p, c, place, w, cc, l, pr, ib, out, fl) ==
    [ op |-> o, file |-> f, size |-> sz, pos |-> p, chunk |-> c, pc |-> place,
      writer |-> w, closeCalls |-> cc, log |-> l, peer |-> pr, inbuf |-> ib,
      outcome |-> out, faults |-> fl ]

\* no other operation was called on the client
NoOperation ==
    Operation("None", None, 0, 0, 0, "none", "None", 0, << >>, "open", << >>,
              NoOutcome, {})

\* a public operation is called: its coroutine stands before __aenter__,
\* with no connection yet
Called ==
    /\ op \in Operations
    /\ file \in IF op \in ScanOperations THEN Files ELSE {None}
    /\ size \in IF op = "instream" THEN Sizes ELSE {0}
    /\ pos = 0
    /\ chunk = 0
    /\ pc = "aenter"
    /\ writer = "None"
    /\ closeCalls = 0
    /\ log = << >>
    /\ peer = "open"
    /\ inbuf = << >>
    /\ outcome = NoOutcome
    /\ faults = {}

\* one operation is called on a client constructed with the default timeout
Init ==
    /\ Called
    /\ timeout = None
    /\ parked = NoOperation

(***************************************************************************)
(* _AsyncClamdNetworkSocket: the connection of one operation.              *)
(***************************************************************************)
\* the places of the coroutine inside the body of "async with"
BodyPlaces ==
    { "send_command", "send_drain", "buffer_read", "chunk_write",
      "chunk_drain", "terminator", "recv_response", "reading" }

\* (mutant) the body runs without "async with": an exception leaves the
\* operation at once, and only a return reaches the release
LeaveBody_unscoped(out) ==
    /\ pc' = IF out.kind = "raise" THEN "done" ELSE "aexit"
    /\ outcome' = out

\* the body of "async with" ends with outcome out, returned or raised:
\* __aexit__ runs next, and returns nothing that would change the outcome
LeaveBody(out) ==
    /\ pc' = "aexit"
    /\ outcome' = out

\* (mutant) open_connection is awaited under the client's timeout: with a
\* timeout set the wait may expire, though the connection did not fail
aenter_wait_for ==
    /\ pc = "aenter"
    /\ \/ /\ writer' = "open"
          /\ pc' = "send_command"
          /\ UNCHANGED outcome
       \/ /\ timeout # None
          /\ pc' = "done"
          /\ outcome' = Raise("ClamdConnectionError", << "Error connecting to host:port" >>)
          /\ UNCHANGED writer
    /\ UNCHANGED << timeout, parked, op, file, size, pos, chunk, closeCalls,
                    log, peer, inbuf, faults >>

\* __aenter__: open_connection succeeds, the body starts with send_command
aenter ==
    /\ pc = "aenter"
    /\ writer' = "open"
    /\ pc' = "send_command"
    /\ UNCHANGED << timeout, parked, op, file, size, pos, chunk, closeCalls, log, peer, inbuf,
                    outcome, faults >>

\* (mutant) the exception of open_connection is swallowed and the body
\* starts without a connection
aenter_error_swallowed ==
    /\ pc = "aenter"
    /\ pc' = "send_command"
    /\ faults' = faults \cup {"connect"}
    /\ UNCHANGED << timeout, parked, op, file, size, pos, chunk, writer, closeCalls, log, peer,
                    inbuf, outcome >>

\* __aenter__: open_connection raises, ClamdConnectionError is raised from
\* it and the body never starts
aenter_error ==
    /\ pc = "aenter"
    /\ pc' = "done"
    /\ outcome' = Raise("ClamdConnectionError", << "Error connecting to host:port" >>)
    /\ faults' = faults \cup {"connect"}
    /\ UNCHANGED << timeout, parked, op, file, size, pos, chunk, writer, closeCalls, log, peer,
                    inbuf >>

\* __aexit__: writer.close() is called when there is a writer; an exception
\* it raises is swallowed and wait_closed is not awaited
aexit ==
    /\ pc = "aexit"
    /\ IF writer # "None"
       THEN /\ closeCalls' = closeCalls + 1
            /\ \/ /\ writer' = "closed"
                  /\ pc' = "wait_closed"
                  /\ UNCHANGED faults
               \/ /\ pc' = "done"
                  /\ faults' = faults \cup {"close"}
                  /\ UNCHANGED writer
       ELSE /\ pc' = "done"
            /\ UNCHANGED << writer, closeCalls, faults >>
    /\ UNCHANGED << timeout, parked, op, file, size, pos, chunk, log, peer, inbuf, outcome >>

\* (mutant) __aexit__ without its try/except: the exception wait_closed()
\* raises leaves __aexit__ and replaces what the body returned or raised
aexit_wait_closed_unswallowed ==
    /\ pc = "wait_closed"
    /\ pc' = "done"
    /\ \/ UNCHANGED << faults, outcome >>
       \/ /\ faults' = faults \cup {"wait_closed"}
          /\ outcome' = Raise("ConnectionResetError", << "Connection lost" >>)
    /\ UNCHANGED << timeout, parked, op, file, size, pos, chunk, writer, closeCalls, log, peer,
                    inbuf >>

\* __aexit__: wait_closed() returns, or raises an exception that is
\* swallowed; the caller gets what the body returned or raised
aexit_wait_closed ==
    /\ pc = "wait_closed"
    /\ pc' = "done"
    /\ \/ UNCHANGED faults
       \/ faults' = faults \cup {"wait_closed"}
    /\ UNCHANGED << timeout, parked, op, file, size, pos, chunk, writer, closeCalls, log, peer,
                    inbuf, outcome >>

\* the arguments an operation gives send_command after the command
ArgsOf(o, f) == IF o \in ScanOperations THEN << f >> ELSE << >>

\* the line send_command writes: n<cmd>[ <arg> ...]\n, as UTF-8
CommandLine(cmd, args) ==
    Utf8Encode(<< "n" >> \o cmd
               \o (IF Len(args) > 0 THEN << " " >> \o JoinSpace(args) ELSE << >>)
               \o << "\n" >>)

\* (mutant) instream reads its first chunk before the command is flushed
send_command_read_ahead ==
    /\ pc = "send_command"
    /\ log' = Append(log, Write("command", CommandLine(CommandOf[op], ArgsOf(op, file)), 0, 0))
    /\ pc' = "send_drain"
    /\ chunk' = IF op # "instream" THEN chunk
                ELSE IF size - pos < chunk_size THEN size - pos
                ELSE chunk_size
    /\ pos' = pos + chunk'
    /\ UNCHANGED << timeout, parked, op, file, size, writer, closeCalls, peer,
                    inbuf, outcome, faults >>

\* send_command: the command line is written
send_command ==
    /\ pc = "send_command"
    /\ log' = Append(log, Write("command", CommandLine(CommandOf[op], ArgsOf(op, file)), 0, 0))
    /\ pc' = "send_drain"
    /\ UNCHANGED << timeout, parked, op, file, size, pos, chunk, writer, closeCalls, peer, inbuf,
                    outcome, faults >>

\* send_command: drain() returns; instream goes on to its data source, the
\* other operations to recv_response
send_command_drained ==
    /\ pc = "send_drain"
    /\ log' = Append(log, Drain)
    /\ pc' = IF op = "instream" THEN "buffer_read" ELSE "recv_response"
    /\ UNCHANGED << timeout, parked, op, file, size, pos, chunk, writer, closeCalls, peer, inbuf,
                    outcome, faults >>

\* send_command: drain() raises (the connection is lost); nothing catches it
send_command_error ==
    /\ pc = "send_drain"
    /\ LeaveBody(Raise("ConnectionResetError", << "Connection lost" >>))
    /\ faults' = faults \cup {"drain"}
    /\ UNCHANGED << timeout, parked, op, file, size, pos, chunk, writer, closeCalls, log, peer,
                    inbuf >>

\* recv_response: reader.read() is awaited
recv_response ==
    /\ pc = "recv_response"
    /\ log' = Append(log, Read)
    /\ pc' = "reading"
    /\ UNCHANGED << timeout, parked, op, file, size, pos, chunk, writer, closeCalls, peer, inbuf,
                    outcome, faults >>

(***************************************************************************)
(* ClamdAsyncClient: what each operation makes of the response.            *)
(***************************************************************************)
\* (mutant) split instead of rsplit: the text before the first "ERROR"
basic_command_split(response) ==
    LET hits == {i \in 1..Len(response) : OccursAt(response, ERROR, i)}
    IN  IF hits # {}
        THEN Raise("ResponseError",
                   SubSeq(response, 1, (CHOOSE i \in hits : \A j \in hits : i <= j) - 1))
        ELSE ReturnStr(response)

\* (mutant) a response that has no text before its last "ERROR" is returned
basic_command_nonempty(response) ==
    LET parts == RSplit1(response, ERROR)
    IN  IF Len(parts) > 1 /\ parts[1] # << >>
        THEN Raise("ResponseError", parts[1])
        ELSE ReturnStr(parts[1])

\* basic_command, after recv_response
basic_command(response) ==
    LET parts == RSplit1(response, ERROR)
    IN  IF Len(parts) > 1
        THEN Raise("ResponseError", parts[1])
        ELSE ReturnStr(parts[1])

\* (mutant) an empty response is not told apart: it is parsed like any
\* other, and so raises
instream_result_parse_empty(result) ==
    IF result = SizeLimitExceeded
    THEN Raise("BufferTooLongError", result)
    ELSE LET r == parse_response(result)
         IN  IF r.ok
             THEN ReturnDict(DictSet(EmptyDict, r.path, << r.status, r.virus >>))
             ELSE Raise("ResponseError", r.err)

\* instream, after recv_response
instream_result(result) ==
    IF result # << >>
    THEN IF result = SizeLimitExceeded
         THEN Raise("BufferTooLongError", result)
         ELSE LET r == parse_response(result)
              IN  IF r.ok
                  THEN ReturnDict(DictSet(EmptyDict, r.path, << r.status, r.virus >>))
                  ELSE Raise("ResponseError", r.err)
    ELSE ReturnNone

\* (mutant) the loop keeps the first entry of a path: a later line of the
\* same path does not replace it
RECURSIVE file_system_scan_from_first_wins(_, _, _)
file_system_scan_from_first_wins(lines, i, dr) ==
    IF i > Len(lines) THEN ReturnDict(dr)
    ELSE IF lines[i] = << >> THEN file_system_scan_from_first_wins(lines, i + 1, dr)
    ELSE LET r == parse_response(lines[i])
         IN  IF r.ok
             THEN file_system_scan_from_first_wins(lines, i + 1,
                     IF r.path \in DOMAIN dr THEN dr
                     ELSE DictSet(dr, r.path, << r.status, r.virus >>))
             ELSE Raise("ResponseError", r.err)

\* (mutant) a line that does not parse ends the loop and the entries of the
\* lines before it are returned
RECURSIVE file_system_scan_from_partial(_, _, _)
file_system_scan_from_partial(lines, i, dr) ==
    IF i > Len(lines) THEN ReturnDict(dr)
    ELSE IF lines[i] = << >> THEN file_system_scan_from_partial(lines, i + 1, dr)
    ELSE LET r == parse_response(lines[i])
         IN  IF r.ok
             THEN file_system_scan_from_partial(lines, i + 1,
                     DictSet(dr, r.path, << r.status, r.virus >>))
             ELSE ReturnDict(dr)

\* _file_system_scan, after recv_response: the loop over the lines, from
\* line i on, with the dict dr so far
RECURSIVE file_system_scan_from(_, _, _)
file_system_scan_from(lines, i, dr) ==
    IF i > Len(lines) THEN ReturnDict(dr)
    ELSE IF lines[i] = << >> THEN file_system_scan_from(lines, i + 1, dr)
    ELSE LET r == parse_response(lines[i])
         IN  IF r.ok
             THEN file_system_scan_from(lines, i + 1,
                                        DictSet(dr, r.path, << r.status, r.virus >>))
             ELSE Raise("ResponseError", r.err)

file_system_scan(response) == file_system_scan_from(SplitLines(response), 1, EmptyDict)

\* what operation o makes of the decoded and stripped response
ResultOf(o, response) ==
    IF o \in BasicOperations THEN basic_command(response)
    ELSE IF o = "instream" THEN instream_result(response)
    ELSE file_system_scan(response)

\* (mutant) the read is awaited under the client's timeout: with a timeout
\* set it may end, with what has come so far, while the daemon's side is open
recv_response_done_timeout ==
    /\ pc = "reading"
    /\ peer = "closed" \/ timeout # None
    /\ IF Utf8Valid(inbuf)
       THEN LeaveBody(ResultOf(op, Strip(Utf8Decode(inbuf))))
       ELSE LeaveBody(Raise("ClamdConnectionError", << "Error while reading from socket" >>))
    /\ UNCHANGED << timeout, parked, op, file, size, pos, chunk, writer,
                    closeCalls, log, peer, inbuf, faults >>

\* recv_response: the daemon has closed its side, read() returns all it
\* sent; the bytes are decoded and stripped (a decoding error is raised as
\* ClamdConnectionError) and the operation makes its result of them
recv_response_done ==
    /\ pc = "reading"
    /\ peer = "closed"
    /\ IF Utf8Valid(inbuf)
       THEN LeaveBody(ResultOf(op, Strip(Utf8Decode(inbuf))))
       ELSE LeaveBody(Raise("ClamdConnectionError", << "Error while reading from socket" >>))
    /\ UNCHANGED << timeout, parked, op, file, size, pos, chunk, writer, closeCalls, log, peer,
                    inbuf, faults >>

\* recv_response: read() raises before the daemon's answer has come, and
\* ClamdConnectionError is raised from it
recv_response_error ==
    /\ pc = "reading"
    /\ peer = "open"
    /\ LeaveBody(Raise("ClamdConnectionError", << "Error while reading from socket" >>))
    /\ faults' = faults \cup {"read"}
    /\ UNCHANGED << timeout, parked, op, file, size, pos, chunk, writer, closeCalls, log, peer,
                    inbuf >>

\* buffer.read(n) on a data source of sz bytes read up to p: n bytes, or
\* what is left when that is less
BufferRead(sz, p, n) == IF sz - p < n THEN sz - p ELSE n

\* (mutant) the loop ends at the first chunk shorter than chunk_size, which
\* is not sent
instream_read_until_short ==
    /\ pc = "buffer_read"
    /\ chunk' = BufferRead(size, pos, chunk_size)
    /\ pos' = pos + chunk'
    /\ pc' = IF chunk' = chunk_size THEN "chunk_write" ELSE "terminator"
    /\ UNCHANGED << timeout, parked, op, file, size, writer, closeCalls, log, peer, inbuf,
                    outcome, faults >>

\* instream: a chunk is read from the data source; an empty one ends the loop
instream_read ==
    /\ pc = "buffer_read"
    /\ chunk' = BufferRead(size, pos, chunk_size)
    /\ pos' = pos + chunk'
    /\ pc' = IF chunk' # 0 THEN "chunk_write" ELSE "terminator"
    /\ UNCHANGED << timeout, parked, op, file, size, writer, closeCalls, log, peer, inbuf,
                    outcome, faults >>

\* (mutant) the frame is written and no drain is awaited after it
instream_write_undrained ==
    /\ pc = "chunk_write"
    /\ log' = Append(log, Write("frame", Pack(chunk), pos - chunk, chunk))
    /\ pc' = "buffer_read"
    /\ UNCHANGED << timeout, parked, op, file, size, pos, chunk, writer, closeCalls, peer, inbuf,
                    outcome, faults >>

\* instream: the length of the chunk and the chunk are written
instream_write ==
    /\ pc = "chunk_write"
    /\ log' = Append(log, Write("frame", Pack(chunk), pos - chunk, chunk))
    /\ pc' = "chunk_drain"
    /\ UNCHANGED << timeout, parked, op, file, size, pos, chunk, writer, closeCalls, peer, inbuf,
                    outcome, faults >>

\* instream: drain() returns after a chunk
instream_drained ==
    /\ pc = "chunk_drain"
    /\ log' = Append(log, Drain)
    /\ pc' = "buffer_read"
    /\ UNCHANGED << timeout, parked, op, file, size, pos, chunk, writer, closeCalls, peer, inbuf,
                    outcome, faults >>

\* (mutant) the loop runs in a try/finally that ends the stream: after a
\* failed drain the terminator is still written and the response read
instream_drain_error_finally ==
    /\ pc = "chunk_drain"
    /\ pc' = "terminator"
    /\ faults' = faults \cup {"drain"}
    /\ UNCHANGED << timeout, parked, op, file, size, pos, chunk, writer,
                    closeCalls, log, peer, inbuf, outcome >>

\* instream: drain() raises after a chunk; nothing catches it
instream_drain_error ==
    /\ pc = "chunk_drain"
    /\ LeaveBody(Raise("ConnectionResetError", << "Connection lost" >>))
    /\ faults' = faults \cup {"drain"}
    /\ UNCHANGED << timeout, parked, op, file, size, pos, chunk, writer, closeCalls, log, peer,
                    inbuf >>

\* instream: the zero length that ends the stream is written; no drain
\* follows it, recv_response does
instream_terminator ==
    /\ pc = "terminator"
    /\ log' = Append(log, Write("terminator", Pack(0), 0, 0))
    /\ pc' = "recv_response"
    /\ UNCHANGED << timeout, parked, op, file, size, pos, chunk, writer, closeCalls, peer, inbuf,
                    outcome, faults >>

(***************************************************************************)
(* The environment: the daemon and the caller's task.                      *)
(***************************************************************************)
\* the daemon, having the command, answers resp and closes its side: any
\* response once the client reads, an early one before
daemon_respond ==
    /\ pc \in BodyPlaces
    /\ peer = "open"
    /\ Len(log) > 0
    /\ \E resp \in IF pc = "reading" THEN Responses ELSE EarlyResponses(log) :
          inbuf' = resp
    /\ peer' = "closed"
    /\ UNCHANGED << timeout, parked, op, file, size, pos, chunk, pc, writer, closeCalls, log,
                    outcome, faults >>

\* the places where the coroutine is suspended inside the body
BodyAwaits == { "send_drain", "chunk_drain", "reading" }

\* the caller's task is cancelled: CancelledError is raised where the
\* coroutine is suspended; no "except Exception" catches it
cancel ==
    /\ \/ /\ pc = "aenter"
          /\ pc' = "done"
          /\ outcome' = Raise("CancelledError", << >>)
       \/ /\ pc \in BodyAwaits
          /\ LeaveBody(Raise("CancelledError", << >>))
       \/ /\ pc = "wait_closed"
          /\ pc' = "done"
          /\ outcome' = Raise("CancelledError", << >>)
    /\ faults' = faults \cup {"cancel"}
    /\ UNCHANGED << timeout, parked, op, file, size, pos, chunk, writer, closeCalls, log, peer,
                    inbuf >>

Next ==
    \/ aenter
    \/ aenter_error
    \/ send_command
    \/ send_command_drained
    \/ send_command_error
    \/ instream_read
    \/ instream_write
    \/ instream_drained
    \/ instream_drain_error
    \/ instream_terminator
    \/ recv_response
    \/ recv_response_done
    \/ recv_response_error
    \/ aexit
    \/ aexit_wait_closed
    \/ daemon_respond
    \/ cancel

Spec == Init /\ [][Next]_vars

(***************************************************************************)
(* Clients constructed with a timeout, and the scheduling of an operation. *)
(***************************************************************************)
\* the timeout a client is constructed with: the default, or a number of
\* seconds (the text of the number: no step computes with it)
Timeouts == { None, << "5" >> }

InitTimeout ==
    /\ Called
    /\ timeout \in Timeouts
    /\ parked = NoOperation

\* a few answers of the daemon, one of each kind: nothing, two lines that
\* parse, "ERROR", and the size limit response
FewResponses ==
    { << >>, Utf8Encode(TwoLines), Utf8Encode(ERROR), Utf8Encode(SizeLimitExceeded) }

\* the daemon answers one of the few and closes its side
daemon_answers ==
    /\ daemon_respond
    /\ inbuf' \in FewResponses

\* the steps of an operation whose daemon gives one of the few answers
NextFew ==
    \/ aenter
    \/ aenter_error
    \/ send_command
    \/ send_command_drained
    \/ send_command_error
    \/ instream_read
    \/ instream_write
    \/ instream_drained
    \/ instream_drain_error
    \/ instream_terminator
    \/ recv_response
    \/ recv_response_done
    \/ recv_response_error
    \/ aexit
    \/ aexit_wait_closed
    \/ daemon_answers
    \/ cancel

SpecTimeout == InitTimeout /\ [][NextFew]_vars

\* the steps the coroutine takes by itself, between two awaits
Code ==
    \/ send_command
    \/ instream_read
    \/ instream_write
    \/ instream_terminator
    \/ recv_response
    \/ aexit

\* reader.read() returns, the daemon having closed its side: the step
\* recv_response_done, whatever the operation makes of the bytes
read_returns ==
    /\ pc = "reading"
    /\ peer = "closed"
    /\ pc' = "aexit"
    /\ UNCHANGED << timeout, parked, op, file, size, pos, chunk, writer,
                    closeCalls, log, peer, inbuf, faults >>
    /\ \/ outcome' = ReturnNone
       \/ outcome'.kind \in {"return", "raise"}

\* the ends of an await that is pending: open_connection, drain and
\* wait_closed return or raise, read returns what a daemon that has closed
\* its side sent
Completion ==
    \/ aenter
    \/ aenter_error
    \/ send_command_drained
    \/ send_command_error
    \/ instream_drained
    \/ instream_drain_error
    \/ read_returns
    \/ aexit_wait_closed

\* an operation whose coroutine is run whenever it can go on, whose
\* pending awaits end, and whose daemon answers and closes its side
Live ==
    /\ SpecTimeout
    /\ WF_vars(Code)
    /\ WF_vars(Completion)
    /\ WF_vars(daemon_answers)

(***************************************************************************)
(* Two operations called on one client.  Each call makes its own           *)
(* _AsyncClamdNetworkSocket, a local of the call; the client holds host,   *)
(* port and timeout only.  One coroutine runs at a time: the variables     *)
(* above are the operation that runs, parked is the one that waits.        *)
(***************************************************************************)
\* the operation that runs, as a record
Running ==
    Operation(op, file, size, pos, chunk, pc, writer, closeCalls, log, peer,
              inbuf, outcome, faults)

\* the places where a coroutine is suspended, not started or ended, so
\* that the event loop may run another
Suspended ==
    { "aenter", "send_drain", "chunk_drain", "reading", "wait_closed", "done" }

\* the paths the second operation asks to scan
OtherFiles == { << "/", "b" >> }

\* the second operation, as called: a scan of another path, or an
\* instream of a data source of one chunk and a byte
OtherCalls ==
    { Operation("scan", f, 0, 0, 0, "aenter", "None", 0, << >>, "open", << >>,
                NoOutcome, {}) : f \in OtherFiles }
    \cup
    { Operation("instream", None, chunk_size + 1, 0, 0, "aenter", "None", 0,
                << >>, "open", << >>, NoOutcome, {}) }

\* the first operation, one of each kind: a basic command, a filesystem
\* scan, or an instream
FirstCalls == { "version", "multiscan", "instream" }

InitConcurrent ==
    /\ Called
    /\ op \in FirstCalls
    /\ timeout = None
    /\ parked \in OtherCalls

\* (mutant) the socket is kept on the client and not in the call: the
\* operation that is resumed finds the writer and the wire of the other
switch_shared_socket ==
    /\ parked # NoOperation
    /\ pc \in Suspended
    /\ parked' = Running
    /\ op' = parked.op
    /\ file' = parked.file
    /\ size' = parked.size
    /\ pos' = parked.pos
    /\ chunk' = parked.chunk
    /\ pc' = parked.pc
    /\ peer' = parked.peer
    /\ inbuf' = parked.inbuf
    /\ outcome' = parked.outcome
    /\ faults' = parked.faults
    /\ UNCHANGED << timeout, writer, closeCalls, log >>

\* the event loop suspends the operation that runs, with all that is its
\* own, and resumes the other
switch ==
    /\ parked # NoOperation
    /\ pc \in Suspended
    /\ parked' = Running
    /\ op' = parked.op
    /\ file' = parked.file
    /\ size' = parked.size
    /\ pos' = parked.pos
    /\ chunk' = parked.chunk
    /\ pc' = parked.pc
    /\ writer' = parked.writer
    /\ closeCalls' = parked.closeCalls
    /\ log' = parked.log
    /\ peer' = parked.peer
    /\ inbuf' = parked.inbuf
    /\ outcome' = parked.outcome
    /\ faults' = parked.faults
    /\ UNCHANGED timeout

\* a step of the operation that runs, of its daemon or of its caller, or
\* a switch to the other operation
NextConcurrent ==
    \/ NextFew
    \/ switch

Concurrent == InitConcurrent /\ [][NextConcurrent]_vars

(***************************************************************************)
(* Properties.                                                             *)
(***************************************************************************)
\* the places after the body of "async with"
AfterBody == { "aexit", "wait_closed", "done" }

\* the indices of the log that hold a write of kind what
WritesOf(what) == {i \in 1..Len(log) : log[i].ev = "write" /\ log[i].what = what}

\* C1: an operation that acquired its connection calls writer.close()
\* exactly once, on every exit path: it is never called twice, it has been
\* called once __aexit__ is past, and not before the body is left.
C1_ReleaseExactlyOnce ==
    /\ closeCalls <= 1
    /\ (pc \in {"wait_closed", "done"} /\ writer # "None") => closeCalls = 1
    /\ pc \in BodyPlaces => (writer = "open" /\ closeCalls = 0)

\* an instream whose drain failed after a data frame has ended, its
\* connection closed once
C1_Witness ==
    /\ pc = "done"
    /\ op = "instream"
    /\ "drain" \in faults
    /\ WritesOf("frame") # {}
    /\ closeCalls = 1

\* C2: when open_connection fails the operation ends at once with
\* ClamdConnectionError: nothing was written, nothing was read from the
\* data source or the socket, and there is no connection to close.
C2_ConnectFailure ==
    "connect" \in faults =>
        /\ pc = "done"
        /\ outcome.kind = "raise"
        /\ outcome.type = "ClamdConnectionError"
        /\ log = << >>
        /\ pos = 0
        /\ writer = "None"
        /\ closeCalls = 0

C2_Witness ==
    /\ "connect" \in faults
    /\ pc = "done"
    /\ op = "instream"

\* C3: an operation that was not cancelled ends with a result or with an
\* exception of the client's own classes (a ClamdError), and a failed
\* drain of send_command or of a chunk ends it with ClamdConnectionError.
C3_TypedErrors ==
    (pc = "done" /\ "cancel" \notin faults) =>
        /\ outcome.kind \in {"return", "raise"}
        /\ outcome.kind = "raise" => IsSubclass(outcome.type, "ClamdError")
        /\ "drain" \in faults =>
              (outcome.kind = "raise" /\ outcome.type = "ClamdConnectionError")

\* the daemon's answer is the size limit response
SizeLimitAnswered ==
    /\ peer = "closed"
    /\ Utf8Valid(inbuf)
    /\ Strip(Utf8Decode(inbuf)) = SizeLimitExceeded

\* C4: an instream that the daemon answered with the size limit response,
\* at whatever point of the transfer, and that was neither cancelled nor
\* failed to read, ends with BufferTooLongError.
C4_SizeLimitAlways ==
    (op = "instream" /\ pc = "done" /\ SizeLimitAnswered
        /\ "cancel" \notin faults /\ "read" \notin faults) =>
        outcome = Raise("BufferTooLongError", SizeLimitExceeded)

\* the number of bytes written by the log's writes of kind frame and
\* terminator, from event i on
RECURSIVE FrameBytesFrom(_)
FrameBytesFrom(i) ==
    IF i > Len(log) THEN 0
    ELSE (IF log[i].ev = "write" /\ log[i].what # "command"
          THEN Len(log[i].head) + log[i].payload
          ELSE 0) + FrameBytesFrom(i + 1)

\* ceil(a / b)
Ceil(a, b) == (a + b - 1) \div b

\* C5: an instream that returns has written ceil(size / chunk_size) data
\* frames and then one terminator, which is its last write; the bytes
\* after the command line are 4 per frame, terminator included, plus size.
C5_Framing ==
    (op = "instream" /\ pc = "done" /\ outcome.kind = "return") =>
        /\ Cardinality(WritesOf("frame")) = Ceil(size, chunk_size)
        /\ Cardinality(WritesOf("terminator")) = 1
        /\ \A t \in WritesOf("terminator") :
              \A i \in 1..Len(log) : log[i].ev = "write" => i <= t
        /\ FrameBytesFrom(1) =
              4 * (Cardinality(WritesOf("frame")) + 1) + size

\* an instream of one full chunk and a shorter one has returned
C5_Witness ==
    /\ op = "instream"
    /\ pc = "done"
    /\ outcome.kind = "return"
    /\ size = chunk_size + 1
    /\ Cardinality(WritesOf("frame")) = 2

\* the order of the writes and the read: the command line first, frames
\* only for instream and in the order of the data source, the terminator
\* after them, the read last
WireOrder ==
    \A i \in 1..Len(log) :
        /\ (i = 1) <=> (log[i].ev = "write" /\ log[i].what = "command")
        /\ (log[i].ev = "write" /\ log[i].what \in {"frame", "terminator"}) =>
              op = "instream"
        /\ (log[i].ev = "write" /\ log[i].what = "frame") =>
              /\ log[i].at = (Cardinality({j \in WritesOf("frame") : j < i})) * chunk_size
              /\ \A j \in 1..i : log[j].ev # "read" /\ log[j].what # "terminator"
        /\ (log[i].ev = "write" /\ log[i].what = "terminator") =>
              /\ \A j \in 1..i : log[j].ev # "read"
              /\ \A j \in (i + 1)..Len(log) : log[j].ev = "read"
        /\ log[i].ev = "read" =>
              /\ i = Len(log)
              /\ op = "instream" => log[i - 1].what = "terminator"

\* C6 as stated: the order above, and every write, the terminator
\* included, is followed by a drain before anything else happens, so that
\* the read starts after the last write was flushed.
C6_AllWritesFlushed ==
    /\ WireOrder
    /\ \A i \in 1..Len(log) :
          /\ (log[i].ev = "write" /\ i < Len(log)) => log[i + 1].ev = "drain"
          /\ log[i].ev = "read" => log[i - 1].ev = "drain"

\* C6, amended: the order above; the command line and every data frame are
\* followed by a drain before anything else happens; the terminator is
\* written after the drain of the last write before it and is followed by
\* the read, with no drain between them.
C6_WireOrder ==
    /\ WireOrder
    /\ \A i \in 1..Len(log) :
          /\ (log[i].ev = "write" /\ log[i].what \in {"command", "frame"}
                /\ i < Len(log)) => log[i + 1].ev = "drain"
          /\ log[i].ev = "drain" =>
                (log[i - 1].ev = "write" /\ log[i - 1].what \in {"command", "frame"})
          /\ (log[i].ev = "write" /\ log[i].what = "terminator") =>
                /\ log[i - 1].ev = "drain"
                /\ i < Len(log) => log[i + 1].ev = "read"
          /\ (log[i].ev = "read" /\ op # "instream") => log[i - 1].ev = "drain"

\* an instream has written two frames and the terminator and reads
C6_Witness ==
    /\ op = "instream"
    /\ Cardinality(WritesOf("frame")) = 2
    /\ WritesOf("terminator") # {}
    /\ pc = "reading"

\* the operation has read the daemon's response and made its result of it
Answered ==
    /\ pc \in AfterBody
    /\ faults \cap {"connect", "drain", "read", "cancel"} = {}
    /\ Utf8Valid(inbuf)

\* the response as the operation sees it: decoded and stripped
Response == Strip(Utf8Decode(inbuf))

Contains(s, sep) == \E i \in 1..Len(s) : OccursAt(s, sep, i)

\* t is the text of s before the last occurrence of sep
BeforeLast(s, sep, t) ==
    \E i \in 1..Len(s) :
        /\ OccursAt(s, sep, i)
        /\ \A j \in (i + 1)..Len(s) : ~OccursAt(s, sep, j)
        /\ t = SubSeq(s, 1, i - 1)

EndsWith(s, t) ==
    /\ Len(s) >= Len(t)
    /\ SubSeq(s, Len(s) - Len(t) + 1, Len(s)) = t

\* C7: a basic command whose stripped response holds "ERROR" raises
\* ResponseError with the text before the last "ERROR"; one whose response
\* holds none returns the response.
C7_BasicCommand ==
    (op \in BasicOperations /\ Answered) =>
        LET r == Response
        IN  IF Contains(r, ERROR)
            THEN /\ outcome.kind = "raise"
                 /\ outcome.type = "ResponseError"
                 /\ BeforeLast(r, ERROR, outcome.str)
            ELSE outcome = ReturnStr(r)

\* a basic command has ended on a response with two "ERROR", raising the
\* text that holds the first
C7_Witness ==
    /\ op \in BasicOperations
    /\ pc = "done"
    /\ Answered
    /\ \E i, j \in 1..Len(Response) :
          i < j /\ OccursAt(Response, ERROR, i) /\ OccursAt(Response, ERROR, j)
    /\ outcome.kind = "raise"
    /\ Contains(outcome.str, ERROR)

\* C8 as stated: a basic command whose response is exactly "ERROR" returns
\* the empty text.
C8_ErrorAloneReturnsEmpty ==
    (op \in BasicOperations /\ pc = "done" /\ Answered /\ Response = ERROR) =>
        outcome = ReturnStr(<< >>)

\* C8, amended: a basic command whose response is exactly "ERROR" raises
\* ResponseError carrying the empty text.
C8_ErrorAloneRaises ==
    (op \in BasicOperations /\ Answered /\ Response = ERROR) =>
        outcome = Raise("ResponseError", << >>)

C8_Witness ==
    /\ op \in BasicOperations
    /\ pc = "done"
    /\ Answered
    /\ Response = ERROR
    /\ outcome.kind = "raise"

\* line is path, ": ", virus and a space unless virus is None, and status
Composes(line, path, virus, status) ==
    line = path \o << ":", " " >>
                \o (IF virus = None THEN << >> ELSE virus \o << " " >>)
                \o status

\* line has the form <path>: [<reason> ]ERROR, the reason not empty
ErrorLine(line) ==
    /\ NoNewline(line)
    /\ \E n \in 0..Len(line) :
          /\ OccursAt(line, << ":", " " >>, n + 1)
          /\ \/ SubSeq(line, n + 3, Len(line)) = ERROR
             \/ /\ EndsWith(line, << " " >> \o ERROR)
                /\ Len(line) - 6 >= n + 3

ParsingOperations == ScanOperations \cup {"instream"}

\* the operation returned a dict
ReturnedDict == outcome.kind = "return" /\ outcome.type = "dict"

\* C9 as stated: a line whose status is ERROR never parses, so that no
\* mapping an operation returns has an entry of status ERROR.
C9_NoErrorEntries ==
    (pc = "done" /\ ReturnedDict) => \A p \in DOMAIN outcome.dict : outcome.dict[p][1] # ERROR

\* C9, amended: a one-line response that ends in ERROR raises ResponseError
\* only if it is not of the form <path>: [<reason> ]ERROR; one of that form
\* gives scan, contscan, multiscan and instream the single entry
\* path -> (ERROR, reason).
C9_ErrorLines ==
    (op \in ParsingOperations /\ Answered) =>
        LET r == Response
        IN  (NoNewline(r) /\ EndsWith(r, ERROR)) =>
                IF ErrorLine(r)
                THEN /\ ReturnedDict
                     /\ \E p \in DOMAIN outcome.dict :
                           /\ DOMAIN outcome.dict = {p}
                           /\ outcome.dict[p][1] = ERROR
                           /\ Composes(r, p, outcome.dict[p][2], ERROR)
                ELSE /\ outcome.kind = "raise"
                     /\ IsSubclass(outcome.type, "ResponseError")

\* a scan has returned the entry of an ERROR line with its reason
C9_Witness ==
    /\ op = "scan"
    /\ pc = "done"
    /\ Answered
    /\ ReturnedDict
    /\ \E p \in DOMAIN outcome.dict :
          outcome.dict[p][1] = ERROR /\ outcome.dict[p][2] # None

\* the lines of r: its longest pieces without a newline
LinesOf(r) ==
    LET starts == {a \in 1..(Len(r) + 1) : a = 1 \/ r[a - 1] = "\n"}
        ends == {b \in 0..Len(r) : b = Len(r) \/ r[b + 1] = "\n"}
    IN  {SubSeq(r, ab[1], ab[2]) :
            ab \in {x \in starts \X ends :
                      /\ x[1] <= x[2] + 1
                      /\ NoNewline(SubSeq(r, x[1], x[2]))}}

\* C10 as stated: in every returned mapping an entry has a virus name if
\* and only if its status is FOUND.
C10_VirusIffFound ==
    (pc = "done" /\ ReturnedDict) =>
        \A p \in DOMAIN outcome.dict :
            (outcome.dict[p][2] # None) <=> (outcome.dict[p][1] = FOUND)

\* C10, amended: every entry of a returned mapping comes from a line
\* <path>: [<virus> ]<status> of the response, and has no virus name if and
\* only if that line ends with ": " and the status; a virus name is not
\* empty, and the status may be any of FOUND, OK and ERROR in both cases.
C10_VirusIffText ==
    (op \in ParsingOperations /\ pc \in AfterBody /\ ReturnedDict) =>
        /\ Utf8Valid(inbuf)
        /\ \A p \in DOMAIN outcome.dict :
              LET status == outcome.dict[p][1]
                  virus == outcome.dict[p][2]
                  lines == LinesOf(Response)
              IN  /\ status \in {FOUND, OK, ERROR}
                  /\ virus # << >>
                  /\ \E line \in lines :
                        /\ Composes(line, p, virus, status)
                        /\ (virus = None) <=>
                              EndsWith(line, << ":", " " >> \o status)

\* a scan has returned an entry with a virus name and the status OK
C10_Witness ==
    /\ op \in ScanOperations
    /\ pc = "done"
    /\ ReturnedDict
    /\ \E p \in DOMAIN outcome.dict :
          outcome.dict[p][1] = OK /\ outcome.dict[p][2] # None

\* the indices of the lines of r that are not empty
Filled(lines) == {i \in 1..Len(lines) : lines[i] # << >>}

\* C11: a scan, contscan or multiscan whose non-empty response lines all
\* parse returns a mapping whose keys are exactly the paths of those lines,
\* and the entry of a path is the (status, virus) of the last line that has
\* this path; the empty lines add nothing.
C11_LastLineWins ==
    (op \in ScanOperations /\ Answered) =>
        LET lines == SplitLines(Response)
            parsed == [i \in Filled(lines) |-> parse_response(lines[i])]
        IN  (\A i \in Filled(lines) : parsed[i].ok) =>
                /\ ReturnedDict
                /\ DOMAIN outcome.dict = {parsed[i].path : i \in Filled(lines)}
                /\ \A i \in Filled(lines) :
                      (\A j \in Filled(lines) : j > i => parsed[j].path # parsed[i].path) =>
                          outcome.dict[parsed[i].path] =
                              << parsed[i].status, parsed[i].virus >>

\* a scan has returned two entries for three lines, two of them of the same
\* path and of different status: the entry holds the status of the later
C11_Witness ==
    /\ op \in ScanOperations
    /\ pc = "done"
    /\ Answered
    /\ ReturnedDict
    /\ Cardinality(DOMAIN outcome.dict) = 2
    /\ LET lines == SplitLines(Response)
       IN  \E i, j \in Filled(lines) :
              /\ i < j
              /\ parse_response(lines[i]).ok
              /\ parse_response(lines[j]).ok
              /\ parse_response(lines[i]).path = parse_response(lines[j]).path
              /\ parse_response(lines[i]).status # parse_response(lines[j]).status
              /\ outcome.dict[parse_response(lines[j]).path][1] =
                    parse_response(lines[j]).status

\* the indices of the log that hold the start of a read
Reads == {i \in 1..Len(log) : log[i].ev = "read"}

\* C12: a scan, contscan or multiscan with a non-empty response line that
\* does not parse raises ResponseError, with the text of the first such
\* line before its last "ERROR", and delivers no mapping, whatever the
\* lines before it gave; the command is written once and the response is
\* read once.
C12_NoPartialMapping ==
    (op \in ScanOperations /\ Answered) =>
        LET lines == SplitLines(Response)
            failing == {i \in Filled(lines) : ~parse_response(lines[i]).ok}
        IN  failing # {} =>
                LET first == CHOOSE i \in failing : \A j \in failing : i <= j
                IN  /\ outcome.kind = "raise"
                    /\ outcome.type = "ResponseError"
                    /\ outcome.dict = EmptyDict
                    /\ outcome.str = RSplit1(lines[first], ERROR)[1]
                    /\ Cardinality(WritesOf("command")) = 1
                    /\ Cardinality(Reads) = 1

\* a scan has raised ResponseError on the third line of a response whose
\* first two lines parse
C12_Witness ==
    /\ op \in ScanOperations
    /\ pc = "done"
    /\ Answered
    /\ outcome.kind = "raise"
    /\ outcome.type = "ResponseError"
    /\ LET lines == SplitLines(Response)
       IN  /\ Len(lines) = 3
           /\ parse_response(lines[1]).ok
           /\ parse_response(lines[2]).ok
           /\ ~parse_response(lines[3]).ok

\* writer.close() or wait_closed() has raised
CloseFailed == faults \cap {"close", "wait_closed"} # {}

\* C13: the step in which writer.close() or wait_closed() raises ends the
\* operation and leaves its outcome as the body left it, a value or an
\* exception; an operation that made its result of the daemon's response
\* and then failed to close ends with just that result.
C13_CloseFailureSwallowed ==
    /\ [][("close" \in faults' \ faults \/ "wait_closed" \in faults' \ faults) =>
            /\ outcome.kind \in {"return", "raise"}
            /\ outcome' = outcome
            /\ pc' = "done"]_vars
    /\ []((pc = "done" /\ CloseFailed /\ Answered) =>
            outcome = ResultOf(op, Response))

\* an operation whose exchange raised ResponseError has ended after
\* wait_closed() raised, with that ResponseError
C13_Witness ==
    /\ pc = "done"
    /\ "wait_closed" \in faults
    /\ "cancel" \notin faults
    /\ outcome.kind = "raise"
    /\ outcome.type = "ResponseError"

\* the writes of a log, in order
WritesIn(l) == SelectSeq(l, LAMBDA e : e.ev = "write")

\* the length of the k-th chunk of a data source of sz bytes
ChunkLen(sz, k) ==
    IF sz - (k - 1) * chunk_size < chunk_size
    THEN sz - (k - 1) * chunk_size
    ELSE chunk_size

\* what operation o with path f and a data source of sz bytes writes when
\* nothing stops it: the command line and, for instream, a frame for each
\* chunk and the terminator
Wire(o, f, sz) ==
    << Write("command", CommandLine(CommandOf[o], ArgsOf(o, f)), 0, 0) >>
    \o (IF o = "instream"
        THEN [k \in 1..Ceil(sz, chunk_size) |->
                Write("frame", Pack(ChunkLen(sz, k)), (k - 1) * chunk_size,
                      ChunkLen(sz, k))]
             \o << Write("terminator", Pack(0), 0, 0) >>
        ELSE << >>)

IsPrefix(a, b) == Len(a) <= Len(b) /\ a = SubSeq(b, 1, Len(a))

\* how operation o ends, given the failures that happened and the bytes ib
\* the daemon sent
OutcomeOf(o, fl, ib) ==
    IF "connect" \in fl
    THEN Raise("ClamdConnectionError", << "Error connecting to host:port" >>)
    ELSE IF "cancel" \in fl THEN Raise("CancelledError", << >>)
    ELSE IF "drain" \in fl THEN Raise("ConnectionResetError", << "Connection lost" >>)
    ELSE IF "read" \in fl \/ ~Utf8Valid(ib)
    THEN Raise("ClamdConnectionError", << "Error while reading from socket" >>)
    ELSE ResultOf(o, Strip(Utf8Decode(ib)))

\* operation t stands as it does when it runs alone: it wrote, on its own
\* connection, the start of what it has to write and all of it when nothing
\* stopped it, it closed its connection at most once, and when it has ended
\* its outcome is that of its own failures and of its own daemon's bytes
AsAlone(t) ==
    /\ IsPrefix(WritesIn(t.log), Wire(t.op, t.file, t.size))
    /\ t.closeCalls <= 1
    /\ t.writer = "None" => (t.log = << >> /\ t.closeCalls = 0)
    /\ t.pc = "done" =>
          /\ t.outcome = OutcomeOf(t.op, t.faults, t.inbuf)
          /\ t.faults \cap {"connect", "drain", "cancel"} = {} =>
                WritesIn(t.log) = Wire(t.op, t.file, t.size)

\* C14: of two operations called on one client, under every interleaving
\* of their suspension points, each writes on its own connection what it
\* writes alone and ends as it ends alone; a step of one, a failure or a
\* cancellation included, leaves the other and its connection as they
\* were, and a switch between them changes neither.
C14_Isolation ==
    /\ [](AsAlone(Running) /\ AsAlone(parked))
    /\ [][\/ parked' = parked
          \/ (parked' = Running /\ Running' = parked)]_vars

\* both operations have ended: the one was cancelled after it wrote its
\* command, the other returned its result
C14_Witness ==
    /\ pc = "done"
    /\ outcome.kind = "return"
    /\ parked.pc = "done"
    /\ "cancel" \in parked.faults
    /\ parked.log # << >>
    /\ parked.closeCalls = 1

\* every frame of the log has a payload of 1 to chunk_size bytes and its
\* length as prefix, and starts where the frame before it ended
FramesInOrder ==
    \A i \in WritesOf("frame") :
        /\ log[i].payload \in 1..chunk_size
        /\ log[i].head = Pack(log[i].payload)
        /\ log[i].at + log[i].payload <= size
        /\ \A j \in WritesOf("frame") :
              j < i => log[j].at + log[j].payload <= log[i].at

\* the terminator is written at most once, with the length zero, when the
\* data source has given an empty chunk and all its bytes are in frames
TerminatorAtEnd ==
    /\ Cardinality(WritesOf("terminator")) <= 1
    /\ \A t \in WritesOf("terminator") :
          /\ log[t].head = << 0, 0, 0, 0 >>
          /\ log[t].payload = 0
          /\ pos = size
          /\ chunk = 0
          /\ Cardinality(WritesOf("frame")) = Ceil(size, chunk_size)

\* C15: the frames instream writes carry 1 to 1024 bytes each with their
\* length as prefix, and no byte of the data source twice; the terminator
\* is written at most once and only when the data source is exhausted; the
\* step in which the drain of a chunk fails, or the task is cancelled
\* there, leaves the body with nothing more written; once the body is left
\* nothing is written or read, of the socket or of the data source, and
\* the operation ends with its writer closed once.
C15_FramesAndAbort ==
    /\ [](op = "instream" => (FramesInOrder /\ TerminatorAtEnd))
    /\ [][(pc = "chunk_drain" /\ faults' # faults) =>
            (pc' = "aexit" /\ log' = log /\ pos' = pos)]_vars
    /\ [][(pc \in AfterBody) =>
            (pc' \in AfterBody /\ log' = log /\ pos' = pos)]_vars
    /\ []((pc = "done" /\ writer # "None") => closeCalls = 1)

\* an instream of two chunks has ended cancelled after its first frame:
\* one frame, no terminator, no read, the writer closed
C15_Witness ==
    /\ op = "instream"
    /\ pc = "done"
    /\ size = 2 * chunk_size
    /\ "cancel" \in faults
    /\ Cardinality(WritesOf("frame")) = 1
    /\ WritesOf("terminator") = {}
    /\ Reads = {}
    /\ closeCalls = 1

\* the operation has ended and holds no open connection that it did not
\* close
Released == pc = "done" /\ (writer = "None" \/ closeCalls = 1)

\* C16: the read of the response ends only when the daemon has closed its
\* side, or when the read raises (a failure of the socket, or the
\* cancellation of the task by its caller); while the daemon's side is open
\* nothing the client does by itself ends it, whatever the timeout.  When
\* every pending await ends and the daemon closes its side, the operation
\* ends, with its connection released.
C16_ReadUntilClose ==
    /\ [][(pc = "reading" /\ pc' # "reading") =>
            (peer = "closed" \/ faults' \ faults \in {{"read"}, {"cancel"}})]_vars
    /\ []((pc = "reading" /\ peer = "open") => ~ENABLED (Code \/ Completion))
    /\ <>Released
    /\ [](pc = "done" => Released)

\* an operation of a client with a timeout has ended after a read that the
\* daemon's close ended
C16_Witness ==
    /\ Released
    /\ timeout # None
    /\ Reads # {}
    /\ peer = "closed"
    /\ faults = {}
    /\ outcome.kind = "return"

\* the steps operation o takes on its wire when nothing stops it: each
\* write of Wire and the drain after it, but for the terminator, which no
\* drain follows, and then the read
RECURSIVE StepsFrom(_, _)
StepsFrom(w, i) ==
    IF i > Len(w) THEN << Read >>
    ELSE (IF w[i].what = "terminator" THEN << w[i] >> ELSE << w[i], Drain >>)
         \o StepsFrom(w, i + 1)

Steps(o, f, sz) == StepsFrom(Wire(o, f, sz), 1)

\* C17: whatever timeout the client was constructed with, an operation
\* takes the steps on its wire that its arguments alone fix, in their
\* order and all of them when nothing stopped it, and ends with the
\* outcome that its failures and the daemon's bytes alone fix; no step
\* changes the timeout.  Two clients that differ in the timeout only, with
\* the same failures and the same bytes, so write and end alike.
C17_TimeoutUnused ==
    /\ timeout \in Timeouts
    /\ IsPrefix(log, Steps(op, file, size))
    /\ pc = "done" =>
          /\ outcome = OutcomeOf(op, faults, inbuf)
          /\ faults \cap {"connect", "drain", "cancel"} = {} =>
                log = Steps(op, file, size)

\* an instream of a client with a timeout has taken all its steps and
\* returned
C17_Witness ==
    /\ timeout # None
    /\ op = "instream"
    /\ size > chunk_size
    /\ pc = "done"
    /\ outcome.kind = "return"
    /\ log = Steps(op, file, size)

\* C18: an instream whose stripped response is empty returns None, neither
\* raising nor returning a mapping; on any other response it raises, or
\* returns a mapping of one entry whose key is the path the response
\* parses to.
C18_EmptyResponseYieldsNone ==
    (op = "instream" /\ Answered) =>
        LET r == Response
        IN  IF r = << >>
            THEN outcome = ReturnNone
            ELSE \/ outcome.kind = "raise"
                 \/ /\ ReturnedDict
                    /\ parse_response(r).ok
                    /\ DOMAIN outcome.dict = {parse_response(r).path}

\* an instream of a data source of two chunks has ended with None: the
\* daemon sent white space only
C18_Witness ==
    /\ op = "instream"
    /\ pc = "done"
    /\ Answered
    /\ size = 2 * chunk_size
    /\ inbuf # << >>
    /\ Response = << >>
    /\ outcome = ReturnNone

\* the number of chunks read from the data source so far
ChunksRead == Ceil(pos, chunk_size)

\* the number of frames written and flushed: the frames of the log that a
\* drain follows
FramesFlushed ==
    Cardinality({i \in WritesOf("frame") : i < Len(log) /\ log[i + 1].ev = "drain"})

\* the INSTREAM command was written and its drain returned
CommandFlushed ==
    /\ writer # "None"
    /\ Len(log) >= 2
    /\ log[1] = Write("command", CommandLine(CommandOf["instream"], << >>), 0, 0)
    /\ log[2] = Drain

\* C19: instream has read nothing from its data source before its
\* connection is open and the INSTREAM command written and flushed, so not
\* when open_connection or the drain of the command failed or was
\* cancelled; at every point it has read a chunk for every frame it wrote
\* and at most one chunk more than the frames it wrote and flushed.
C19_SourceReadAfterCommand ==
    op = "instream" =>
        /\ ~CommandFlushed => (pos = 0 /\ chunk = 0)
        /\ ("connect" \in faults \/ (pc \in AfterBody /\ Len(log) = 1)) => pos = 0
        /\ Cardinality(WritesOf("frame")) <= ChunksRead
        /\ ChunksRead <= FramesFlushed + 1

\* an instream has ended on the failed drain of its command, its data
\* source, which is not empty, not read
C19_Witness ==
    /\ op = "instream"
    /\ pc = "done"
    /\ size > 0
    /\ "drain" \in faults
    /\ Len(log) = 1
    /\ pos = 0

\* the lines of response r that operation o hands to _parse_response and
\* that do not match: for instream r itself, unless it is empty or the size
\* limit response, for the scans the non-empty lines
Unmatched(o, r) ==
    LET lines == IF o = "instream"
                 THEN IF r = SizeLimitExceeded THEN << >> ELSE << r >>
                 ELSE SplitLines(r)
    IN  [lines |-> lines,
         at |-> {i \in Filled(lines) : ~scan_response(lines[i]).ok}]

\* the first of them, on which the operation ends
FirstUnmatched(u) == u.lines[CHOOSE i \in u.at : \A j \in u.at : i <= j]

\* C20 as stated: a line that does not match raises ResponseError with the
\* line less an "ERROR" that ends it; a line that does not end in "ERROR"
\* is carried whole.
C20_TrailingErrorStripped ==
    (op \in ParsingOperations /\ pc = "done" /\ Answered) =>
        LET u == Unmatched(op, Response)
        IN  u.at # {} =>
                LET line == FirstUnmatched(u)
                IN  /\ outcome.kind = "raise"
                    /\ outcome.type = "ResponseError"
                    /\ outcome.str = IF EndsWith(line, ERROR)
                                     THEN SubSeq(line, 1, Len(line) - Len(ERROR))
                                     ELSE line

\* C20, amended: a line that does not match raises ResponseError with the
\* text of the line before its last "ERROR", wherever that stands: the line
\* less an "ERROR" that ends it, and the whole line when it holds none.
C20_TextBeforeLastError ==
    (op \in ParsingOperations /\ Answered) =>
        LET u == Unmatched(op, Response)
        IN  u.at # {} =>
                LET line == FirstUnmatched(u)
                IN  /\ outcome.kind = "raise"
                    /\ outcome.type = "ResponseError"
                    /\ IF Contains(line, ERROR)
                       THEN BeforeLast(line, ERROR, outcome.str)
                       ELSE outcome.str = line
                    /\ EndsWith(line, ERROR) =>
                          outcome.str = SubSeq(line, 1, Len(line) - Len(ERROR))

\* an operation has raised on a line that holds "ERROR" and does not end
\* with it: the error carries less than the line
C20_Witness ==
    /\ op \in ParsingOperations
    /\ pc = "done"
    /\ Answered
    /\ LET u == Unmatched(op, Response)
       IN  /\ u.at # {}
           /\ Contains(FirstUnmatched(u), ERROR)
           /\ ~EndsWith(FirstUnmatched(u), ERROR)
           /\ outcome.kind = "raise"
           /\ outcome.str # FirstUnmatched(u)

====
